---- MODULE Spec2Model ----
(***************************************************************************)
(* Model of scripts/knights.py: the generator of the 64 knight             *)
(* reachability masks, printed as hexadecimal literals.                    *)
(*                                                                         *)
(* Python lists are heap objects: `heap` holds the 64-element bit lists    *)
(* allocated by `[0] * 64`, and `pattern` / `patterns` hold references     *)
(* (indices into heap).  Python integers are unbounded: an integer is a    *)
(* little-endian sequence of base-16 digits without a leading zero digit   *)
(* (the empty sequence is 0).  A Python string is a sequence of            *)
(* one-character strings.                                                  *)
(***************************************************************************)
EXTENDS Integers, Sequences, FiniteSets

VARIABLES pc, y, x, k, pattern, heap, patterns, m, pos, acc, result, stdout,
          args, ret, returned

prog_vars == <<pc, y, x, k, pattern, heap, patterns, m, pos, acc, result, stdout>>
conv_vars == <<m, pos, acc>>
call_vars == <<args, ret, returned>>
vars == <<pc, y, x, k, pattern, heap, patterns, m, pos, acc, result, stdout,
          args, ret, returned>>

(* Bounds of the inputs is_valid_square is exercised on in SpecValid. *)
MaxBelow == 3
MaxCoord == 10
Coords == (0 - MaxBelow)..MaxCoord

(* Program constants. *)
BoardSize == 8
PatternLen == 64

(*-------------------------- pure functions ------------------------------*)

is_valid_square_le(yy, xx) ==
    yy >= 0 /\ yy < 8 /\ xx >= 0 /\ xx <= 8

is_valid_square_noxhigh(yy, xx) ==
    yy >= 0 /\ yy < 8 /\ xx >= 0

is_valid_square_noxlow(yy, xx) ==
    yy >= 0 /\ yy < 8 /\ xx < 8

is_valid_square(yy, xx) ==
    yy >= 0 /\ yy < 8 /\ xx >= 0 /\ xx < 8

(* itertools.product of two lists: the last factor varies fastest. *)
product(A, B) ==
    [i \in 1..(Len(A) * Len(B)) |->
        <<A[((i - 1) \div Len(B)) + 1], B[((i - 1) % Len(B)) + 1]>>]

first_offsets_pos == product(<<2, 2>>, <<-1, 1>>)

first_offsets == product(<<-2, 2>>, <<-1, 1>>)

second_offsets_pos == product(<<-1, 1>>, <<2, 2>>)

second_offsets == product(<<-1, 1>>, <<-2, 2>>)

(* [0] * 64 *)
zero_list == [i \in 0..(PatternLen - 1) |-> 0]

(* Python list indexing: li[idx] raises IndexError unless                  *)
(* -len(li) <= idx < len(li).                                              *)
index_in_range(idx) == idx >= -PatternLen /\ idx < PatternLen

(* Python list store li[idx] = v for an index in range: a negative index  *)
(* counts from the end of the list.                                        *)
list_store(li, idx, v) ==
    IF idx >= 0 THEN [li EXCEPT ![idx] = v]
    ELSE [li EXCEPT ![idx + PatternLen] = v]

(* ---- unbounded integers ---- *)
Pow2Small(e) == IF e = 0 THEN 1 ELSE IF e = 1 THEN 2 ELSE IF e = 2 THEN 4 ELSE 8

(* 2 ** n *)
int_pow2(n) ==
    [p \in 1..((n \div 4) + 1) |-> IF p = (n \div 4) + 1 THEN Pow2Small(n % 4) ELSE 0]

RECURSIVE add_from(_, _, _, _)
add_from(a, b, p, carry) ==
    IF p > Len(a) /\ p > Len(b)
    THEN IF carry = 0 THEN <<>> ELSE <<carry>>
    ELSE LET da == IF p <= Len(a) THEN a[p] ELSE 0
             db == IF p <= Len(b) THEN b[p] ELSE 0
             s  == da + db + carry
         IN  <<s % 16>> \o add_from(a, b, p + 1, s \div 16)

(* a + b *)
int_add(a, b) == add_from(a, b, 1, 0)

(* b * n for a list element b (0 or 1) *)
int_scale(b, n) == IF b = 0 THEN <<>> ELSE n

(* One addition of sum(map(lambda t: t[1]*(2**t[0]), enumerate(li))):     *)
(* the running total plus the term of t = (n, li[n]).                      *)
sum_term(total, li, n) == int_add(total, int_scale(li[n], int_pow2(n)))

HexChars == <<"0", "1", "2", "3", "4", "5", "6", "7",
              "8", "9", "a", "b", "c", "d", "e", "f">>

hex_lsb_first(n) ==
    <<"0", "x">> \o
    (IF n = <<>> THEN <<"0">>
     ELSE [p \in 1..Len(n) |-> HexChars[n[p] + 1]])

hex_padded(n) ==
    <<"0", "x">> \o
    [p \in 1..16 |-> IF 17 - p <= Len(n) THEN HexChars[n[17 - p] + 1] ELSE "0"]

(* hex(n) for n >= 0 *)
hex(n) ==
    <<"0", "x">> \o
    (IF n = <<>> THEN <<"0">>
     ELSE [p \in 1..Len(n) |-> HexChars[n[Len(n) + 1 - p] + 1]])

RECURSIVE join(_, _)
(* sep.join(strs) *)
join(sep, strs) ==
    IF strs = <<>> THEN <<>>
    ELSE IF Len(strs) = 1 THEN strs[1]
    ELSE strs[1] \o sep \o join(sep, Tail(strs))

(*------------------------ generate_patterns -----------------------------*)

Init ==
    /\ pc = "begin"
    /\ y = 0 /\ x = 0 /\ k = 1
    /\ pattern = 0
    /\ heap = <<>>
    /\ patterns = <<>>
    /\ m = 1 /\ pos = 0 /\ acc = <<>>
    /\ result = <<>>
    /\ stdout = <<>>
    /\ args = <<0, 0>> /\ ret = FALSE /\ returned = FALSE

(* patterns = list(); enter both for loops at y = 0, x = 0 *)
Begin ==
    /\ pc = "begin"
    /\ patterns' = <<>>
    /\ y' = 0 /\ x' = 0
    /\ pc' = "start_square"
    /\ UNCHANGED <<k, pattern, heap, conv_vars, result, stdout, call_vars>>

StartSquare_reuse ==
    /\ pc = "start_square"
    /\ IF heap = <<>>
       THEN heap' = Append(heap, zero_list) /\ pattern' = 1
       ELSE heap' = [heap EXCEPT ![pattern] = zero_list] /\ pattern' = pattern
    /\ k' = 1
    /\ pc' = "first_loop"
    /\ UNCHANGED <<y, x, patterns, conv_vars, result, stdout, call_vars>>

StartSquare_copy ==
    /\ pc = "start_square"
    /\ heap' = Append(heap, IF heap = <<>> THEN zero_list ELSE heap[pattern])
    /\ pattern' = Len(heap) + 1
    /\ k' = 1
    /\ pc' = "first_loop"
    /\ UNCHANGED <<y, x, patterns, conv_vars, result, stdout, call_vars>>

(* pattern = [0] * 64: a fresh list object *)
StartSquare ==
    /\ pc = "start_square"
    /\ heap' = Append(heap, zero_list)
    /\ pattern' = Len(heap) + 1
    /\ k' = 1
    /\ pc' = "first_loop"
    /\ UNCHANGED <<y, x, patterns, conv_vars, result, stdout, call_vars>>

(* One iteration of a `for dy, dx in ...` body:                            *)
(*   if is_valid_square(y + dy, x + dx):                                   *)
(*       idx = (y + dy) * 8 + (x + dx)                                     *)
(*       pattern[idx] = 1                                                  *)
(* mark_raises: the store raises IndexError; mark: the heap afterwards.    *)
mark_raises(off) ==
    /\ is_valid_square(y + off[1], x + off[2])
    /\ ~index_in_range((y + off[1]) * 8 + (x + off[2]))

mark(off) ==
    LET dy == off[1]
        dx == off[2]
    IN  IF is_valid_square(y + dy, x + dx)
        THEN LET idx == (y + dy) * 8 + (x + dx)
             IN  [heap EXCEPT ![pattern] = list_store(heap[pattern], idx, 1)]
        ELSE heap

(* for dy, dx in itertools.product([-2, 2], [-1, 1]) *)
FirstLoop ==
    /\ pc = "first_loop"
    /\ IF mark_raises(first_offsets[k])
       THEN pc' = "raised" /\ UNCHANGED <<heap, k>>
       ELSE /\ heap' = mark(first_offsets[k])
            /\ IF k < Len(first_offsets)
               THEN k' = k + 1 /\ pc' = "first_loop"
               ELSE k' = 1 /\ pc' = "second_loop"
    /\ UNCHANGED <<y, x, pattern, patterns, conv_vars, result, stdout, call_vars>>

(* for dy, dx in itertools.product([-1, 1], [-2, 2]) *)
SecondLoop ==
    /\ pc = "second_loop"
    /\ IF mark_raises(second_offsets[k])
       THEN pc' = "raised" /\ UNCHANGED <<heap, k>>
       ELSE /\ heap' = mark(second_offsets[k])
            /\ IF k < Len(second_offsets)
               THEN k' = k + 1 /\ pc' = "second_loop"
               ELSE k' = 1 /\ pc' = "append"
    /\ UNCHANGED <<y, x, pattern, patterns, conv_vars, result, stdout, call_vars>>

AppendPattern_colmajor ==
    /\ pc = "append"
    /\ patterns' = Append(patterns, pattern)
    /\ IF y < BoardSize - 1
       THEN y' = y + 1 /\ x' = x /\ pc' = "start_square"
       ELSE IF x < BoardSize - 1
            THEN x' = x + 1 /\ y' = 0 /\ pc' = "start_square"
            ELSE pc' = "return" /\ UNCHANGED <<y, x>>
    /\ UNCHANGED <<k, pattern, heap, conv_vars, result, stdout, call_vars>>

(* patterns.append(pattern), then the next x of range(8), or the next y   *)
(* of range(8) with x restarting at 0, or the end of both loops.           *)
AppendPattern ==
    /\ pc = "append"
    /\ patterns' = Append(patterns, pattern)
    /\ IF x < BoardSize - 1
       THEN x' = x + 1 /\ y' = y /\ pc' = "start_square"
       ELSE IF y < BoardSize - 1
            THEN y' = y + 1 /\ x' = 0 /\ pc' = "start_square"
            ELSE pc' = "return" /\ UNCHANGED <<y, x>>
    /\ UNCHANGED <<k, pattern, heap, conv_vars, result, stdout, call_vars>>

(* return list(map(list_to_hex, patterns)): list() draws the next item of *)
(* the map, which calls list_to_hex(patterns[m]) and starts its sum at 0;  *)
(* when the map is exhausted the list is returned.                         *)
MapNext ==
    /\ pc = "return"
    /\ IF m <= Len(patterns)
       THEN pos' = 0 /\ acc' = <<>> /\ pc' = "sum"
       ELSE pc' = "print" /\ UNCHANGED <<pos, acc>>
    /\ UNCHANGED <<y, x, k, pattern, heap, patterns, m, result, stdout, call_vars>>

(* list_to_hex: sum() consumes the next item of the map over enumerate(li) *)
SumStep ==
    /\ pc = "sum"
    /\ pos < PatternLen
    /\ acc' = sum_term(acc, heap[patterns[m]], pos)
    /\ pos' = pos + 1
    /\ UNCHANGED <<pc, y, x, k, pattern, heap, patterns, m, result, stdout, call_vars>>

(* list_to_hex: return hex(sum(...)); list() stores the item *)
ListToHexReturn ==
    /\ pc = "sum"
    /\ pos = PatternLen
    /\ result' = Append(result, hex(acc))
    /\ m' = m + 1
    /\ pc' = "return"
    /\ UNCHANGED <<y, x, k, pattern, heap, patterns, pos, acc, stdout, call_vars>>

(* print(', '.join(generate_patterns())) *)
PrintLine ==
    /\ pc = "print"
    /\ stdout' = stdout \o join(<<",", " ">>, result) \o <<"\n">>
    /\ pc' = "exit"
    /\ UNCHANGED <<y, x, k, pattern, heap, patterns, conv_vars, result, call_vars>>

Next == Begin \/ StartSquare \/ FirstLoop \/ SecondLoop \/ AppendPattern
        \/ MapNext \/ SumStep \/ ListToHexReturn \/ PrintLine

Spec == Init /\ [][Next]_vars

(* The interpreter runs the script to completion. *)
FairSpec == Init /\ [][Next]_vars /\ WF_vars(Next)

(*------------------- is_valid_square on arbitrary input ------------------*)

InitValid ==
    /\ pc = "begin"
    /\ y = 0 /\ x = 0 /\ k = 1
    /\ pattern = 0
    /\ heap = <<>>
    /\ patterns = <<>>
    /\ m = 1 /\ pos = 0 /\ acc = <<>>
    /\ result = <<>>
    /\ stdout = <<>>
    /\ args \in Coords \X Coords
    /\ ret = FALSE
    /\ returned = FALSE

CallIsValidSquare ==
    /\ ~returned
    /\ ret' = is_valid_square(args[1], args[2])
    /\ returned' = TRUE
    /\ UNCHANGED <<args, prog_vars>>

NextCall ==
    /\ returned
    /\ args' \in Coords \X Coords
    /\ ret' = FALSE
    /\ returned' = FALSE
    /\ UNCHANGED prog_vars

NextValid == CallIsValidSquare \/ NextCall

SpecValid == InitValid /\ [][NextValid]_vars

(*------------------------------ properties ------------------------------*)

Squares == 0..63

KnightOffsets ==
    {<<-2, -1>>, <<-2, 1>>, <<2, -1>>, <<2, 1>>,
     <<-1, -2>>, <<-1, 2>>, <<1, -2>>, <<1, 2>>}

(* square t = (t div 8, t mod 8) is one knight offset away from square s *)
KnightMove(s, t) ==
    <<(t \div 8) - (s \div 8), (t % 8) - (s % 8)>> \in KnightOffsets

(* the indices holding 1 in a bit list *)
ListBits(li) == {b \in DOMAIN li : li[b] = 1}

IsHexChar(c) == \E d \in 0..15 : HexChars[d + 1] = c
HexValue(c) == CHOOSE d \in 0..15 : HexChars[d + 1] = c

(* "0x" followed by one or more lowercase hexadecimal digits *)
IsHexToken(tok) ==
    /\ Len(tok) >= 3
    /\ tok[1] = "0" /\ tok[2] = "x"
    /\ \A p \in 3..Len(tok) : IsHexChar(tok[p])

(* the set bits of the number a hexadecimal token denotes: bit b is in    *)
(* the digit b div 4 places from the right, at weight 2^(b mod 4)          *)
TokenBits(tok) ==
    {b \in 0..(4 * (Len(tok) - 2) - 1) :
        (HexValue(tok[Len(tok) - (b \div 4)]) \div Pow2Small(b % 4)) % 2 = 1}

(* generate_patterns has returned its list *)
Finished == pc \in {"print", "exit"}

(* the set bits of the entry at position s (0-based) of the table *)
Mask(s) == TokenBits(result[s + 1])

(* C1: for every source square and every index i in 0..63, bit i of the   *)
(* value produced for that square is set iff square i is one knight       *)
(* offset away from the source; no other bit is set (an offset leaving    *)
(* the board never wraps into another rank) and the value is below 2^64.  *)
(* Stated of every collected bit list and of every returned literal.      *)
C1_MaskIsKnightMoves ==
    /\ \A s \in 1..Len(patterns) :
          /\ DOMAIN heap[patterns[s]] = Squares
          /\ ListBits(heap[patterns[s]]) = {t \in Squares : KnightMove(s - 1, t)}
    /\ Finished =>
          \A s \in Squares :
              /\ Len(result[s + 1]) - 2 <= 16
              /\ Mask(s) = {t \in Squares : KnightMove(s, t)}

C1_Witness ==
    /\ Finished
    /\ 10 \in Mask(0) /\ 17 \in Mask(0)
    /\ 17 \notin Mask(7) /\ 24 \notin Mask(7)

(* the mask of the source square (rank, file), from the board geometry *)
SquareMask(rank, file) ==
    {r * 8 + f : <<r, f>> \in
        {q \in (0..7) \X (0..7) : <<q[1] - rank, q[2] - file>> \in KnightOffsets}}

(* C2: generate_patterns terminates and returns exactly 64 entries; the   *)
(* entry at position k is the mask of the square (k div 8, k mod 8): the   *)
(* entries are collected in row-major order, rank outer, file inner.      *)
C2_TerminatesWith64InOrder ==
    /\ <>Finished
    /\ [](pc \in {"start_square", "first_loop", "second_loop", "append"}
            => Len(patterns) = y * 8 + x)
    /\ [](Finished =>
            /\ Len(result) = 64
            /\ \A n \in 0..63 : Mask(n) = SquareMask(n \div 8, n % 8))

C2_Witness ==
    /\ Finished
    /\ Len(result) = 64
    /\ Mask(1) = SquareMask(0, 1)
    /\ Mask(8) = SquareMask(1, 0)
    /\ Mask(1) # Mask(8)

(* C3: symmetry: bit j of the mask at position i equals bit i of the mask *)
(* at position j, for all i, j in 0..63.                                  *)
C3_Symmetry ==
    Finished => \A a \in Squares, b \in Squares : (b \in Mask(a)) <=> (a \in Mask(b))

C3_Witness ==
    /\ Finished
    /\ 17 \in Mask(0) /\ 0 \in Mask(17)
    /\ 1 \notin Mask(0) /\ 0 \notin Mask(1)

(* C4: degree bounds: every mask of the table has at least 2 and at most  *)
(* 8 bits set.                                                            *)
C4_DegreeBounds ==
    Finished => \A s \in Squares : Cardinality(Mask(s)) >= 2 /\ Cardinality(Mask(s)) <= 8

C4_Witness ==
    /\ Finished
    /\ Cardinality(Mask(63)) = 2
    /\ Cardinality(Mask(27)) = 8

(* C5: self-exclusion: bit i of the mask at position i is 0.              *)
C5_SelfExclusion ==
    Finished => \A s \in Squares : s \notin Mask(s)

C5_Witness ==
    /\ Finished
    /\ Len(result) = 64
    /\ Mask(17) # {} /\ 17 \notin Mask(17) /\ 17 \in Mask(0)

(* C6: known values: the mask at position 0 has exactly bits 10 and 17    *)
(* set, i.e. is 0x20400, and the mask at position 27 has exactly the bits *)
(* 10, 12, 17, 21, 33, 37, 42 and 44 set.                                 *)
C6_CornerAndCentre ==
    Finished =>
        /\ result[1] = <<"0", "x", "2", "0", "4", "0", "0">>
        /\ Mask(0) = {10, 17}
        /\ Mask(27) = {10, 12, 17, 21, 33, 37, 42, 44}

C6_Witness ==
    /\ Finished
    /\ result[28] = <<"0", "x", "1", "4", "2", "2", "0", "0", "2", "2", "1", "4", "0", "0">>

(* C7 as stated: the mask at position 8 marks the squares 2, 18 and 25    *)
(* and its popcount is 4.                                                 *)
C7_EdgePopcount4 ==
    Finished => ({2, 18, 25} \subseteq Mask(8) /\ Cardinality(Mask(8)) = 4)

(* C7 amended: the mask at position 8 marks the squares 2, 18 and 25 and  *)
(* no other square, so its popcount is 3.                                 *)
C7_EdgePopcount3 ==
    Finished => ({2, 18, 25} \subseteq Mask(8) /\ Cardinality(Mask(8)) = 3)

C7_Witness ==
    /\ Finished
    /\ Mask(8) = {2, 18, 25}

(* the printed line: what was written before the final line break *)
Line == SubSeq(stdout, 1, Len(stdout) - 1)

(* positions where a ", " separator starts *)
Seps(L) == {p \in 1..(Len(L) - 1) : L[p] = "," /\ L[p + 1] = " "}

NthSep(L, n) == CHOOSE p \in Seps(L) : Cardinality({q \in Seps(L) : q < p}) = n - 1

(* the n-th piece of L split on ", " *)
Token(L, n) ==
    SubSeq(L,
           IF n = 1 THEN 1 ELSE NthSep(L, n - 1) + 2,
           IF n = Cardinality(Seps(L)) + 1 THEN Len(L) ELSE NthSep(L, n) - 1)

(* C8: the printed line is the 64 entries joined by ", " with no trailing *)
(* separator and no brackets; each entry is "0x" followed by one or more  *)
(* lowercase hexadecimal digits with no leading zero digit, and parsing   *)
(* entry i as hexadecimal yields exactly the mask of square i.            *)
C8_OutputRoundTrip ==
    pc = "exit" =>
        /\ stdout[Len(stdout)] = "\n"
        /\ Cardinality(Seps(Line)) = 63
        /\ \A n \in 1..64 :
              LET tok == Token(Line, n)
              IN  /\ IsHexToken(tok)
                  /\ tok[3] # "0"
                  /\ TokenBits(tok) = ListBits(heap[patterns[n]])

C8_Witness ==
    /\ pc = "exit"
    /\ Len(stdout) > 64
    /\ Token(Line, 1) = <<"0", "x", "2", "0", "4", "0", "0">>
    /\ Token(Line, 64) = result[64]

(* C9: is_valid_square is total over all integer pairs, negative values   *)
(* and values of 8 or more included: a call is always possible, returns   *)
(* true iff 0 <= rank < 8 and 0 <= file < 8, and changes no state.        *)
C9_IsValidSquareTotal ==
    /\ ~returned => ENABLED CallIsValidSquare
    /\ returned =>
          /\ ret = (0 <= args[1] /\ args[1] < 8 /\ 0 <= args[2] /\ args[2] < 8)
          /\ pc = "begin" /\ heap = <<>> /\ patterns = <<>>
          /\ result = <<>> /\ stdout = <<>>

C9_Witness ==
    /\ returned
    /\ args[1] < 0 /\ args[2] >= 8
    /\ ret = FALSE

(* C10: each square's pattern starts as 64 zero bits, and a step only     *)
(* appends: the entries already collected keep their place and their      *)
(* contents in every later step, and so do the entries already returned.  *)
C10_AppendOnly ==
    [][/\ Len(patterns') >= Len(patterns)
       /\ \A s \in 1..Len(patterns) :
             /\ patterns'[s] = patterns[s]
             /\ heap'[patterns'[s]] = heap[patterns[s]]
       /\ (pc = "start_square" /\ pc' = "first_loop") => ListBits(heap'[pattern']) = {}
       /\ pc' = "append" => \A s \in 1..Len(patterns) : patterns[s] # pattern'
       /\ Len(result') >= Len(result)
       /\ \A n \in 1..Len(result) : result'[n] = result[n]]_vars

C10_Witness ==
    /\ pc = "second_loop"
    /\ Len(patterns) >= 2
    /\ ListBits(heap[pattern]) # {}
    /\ ListBits(heap[patterns[1]]) = {10, 17}
    /\ heap[pattern] # heap[patterns[1]]

====
